---------------------------- MODULE Spec2Model ----------------------------
(***************************************************************************)
(* Document-Buddy-App: the upload page (new.py) and the ingestion pipeline *)
(* EmbeddingsManager.create_embeddings (vectors.py).                       *)
(*                                                                         *)
(* Each browser session runs the script new.py top to bottom on every      *)
(* interaction.  A run with a file in the uploader writes the bytes to a   *)
(* fresh temporary file; when the "Process Document" button was pressed    *)
(* the run calls create_embeddings on that path and unlinks it afterwards. *)
(* Sessions run in their own threads and share only the disk and the       *)
(* Qdrant collection "vector_db".                                          *)
(*                                                                         *)
(* Text is modelled by its length in characters after stripping            *)
(* whitespace: a unit of length 0 is a unit of whitespace only.            *)
(*                                                                         *)
(* Qdrant.from_documents is one call in create_embeddings; the model takes *)
(* it in the steps in which it reaches the embedding model and the server: *)
(* the chunks are embedded, the collection is looked up, a missing         *)
(* collection is recreated, the points are written.  Any exception of any  *)
(* of these steps is caught by the except clause around the call.          *)
(***************************************************************************)
EXTENDS Integers, Sequences, FiniteSets

\* ------------------------------------------------------------------ bounds
\* Temporary files the model lets the sessions create in total.
MaxTmpFiles == 4
\* Lengths of the texts the uploaded files decode to.
ShortLen == 600
LongLen == 1500

Sessions == {1, 2}

\* ------------------------------------------------------------ the inputs
\* Extensions of uploaded file names: the ten the loader knows, two of them
\* in another letter case, and two the loader does not know.
Extensions ==
    {".pdf", ".md", ".ts", ".tsx", ".csv", ".json", ".xml", ".html", ".css",
     ".scss", ".PDF", ".Html", ".txt", ""}

\* What the bytes of a file decode to: a decode error, or a sequence of
\* document units (each given by the length of its stripped text).
Contents ==
    { [decodes |-> FALSE, units |-> <<>>],
      [decodes |-> TRUE, units |-> <<>>],
      [decodes |-> TRUE, units |-> <<0>>],
      [decodes |-> TRUE, units |-> <<ShortLen>>],
      [decodes |-> TRUE, units |-> <<LongLen>>],
      [decodes |-> TRUE, units |-> <<ShortLen, LongLen>>] }

Files == [ext : Extensions, content : Contents]

\* The files two concurrent sessions choose from.
SharedFiles ==
    [ext : {".md", ".html", ".txt"},
     content : Contents \ {[decodes |-> TRUE, units |-> <<ShortLen, LongLen>>]}]

NoFile == [ext |-> "none", content |-> [decodes |-> FALSE, units |-> <<>>]]

\* ------------------------------------------------------- pure functions
\* os.path.splitext(file_path)[1].lower()
lower(ext) ==
    CASE ext = ".PDF" -> ".pdf"
      [] ext = ".Html" -> ".html"
      [] OTHER -> ext

\* The methods class EmbeddingsManager defines.
EmbeddingsManager ==
    {"__init__", "_json_extract_func", "_get_loader", "_get_css_splitter",
     "_get_html_splitter", "_get_chunk_settings", "_get_text_splitter",
     "create_embeddings"}

NoException == [type |-> "None", msg |-> "None"]

Raise(type, msg) == [type |-> type, msg |-> msg]

\* self.<name>(...): an attribute the class does not define raises.
call_method(name) ==
    IF name \in EmbeddingsManager THEN NoException
    ELSE Raise("AttributeError", name)

\* _get_loader: the loader for the file's extension, or the exception raised.
get_loader(file_path_ext) ==
    LET file_extension == lower(file_path_ext) IN
    IF file_extension = ".pdf"
      THEN [raised |-> NoException, loader |-> "UnstructuredPDFLoader"]
    ELSE IF file_extension = ".md"
      THEN [raised |-> NoException, loader |-> "UnstructuredMarkdownLoader"]
    ELSE IF file_extension \in {".ts", ".tsx"}
      THEN [raised |-> NoException, loader |-> "TextLoader"]
    ELSE IF file_extension = ".csv"
      THEN [raised |-> call_method("_get_csv_columns"),
            loader |-> IF call_method("_get_csv_columns") = NoException
                       THEN "CSVLoader" ELSE "None"]
    ELSE IF file_extension = ".json"
      THEN [raised |-> NoException, loader |-> "JSONLoader"]
    ELSE IF file_extension = ".xml"
      THEN [raised |-> NoException, loader |-> "UnstructuredXMLLoader"]
    ELSE IF file_extension = ".html"
      THEN [raised |-> NoException, loader |-> "BSHTMLLoader"]
    ELSE IF file_extension \in {".css", ".scss"}
      THEN [raised |-> NoException, loader |-> "TextLoader"]
    ELSE [raised |-> Raise("ValueError", "Unsupported file type"),
          loader |-> "None"]

\* _get_css_splitter
get_css_splitter ==
    [kind |-> "RecursiveCharacterTextSplitter", bounded |-> TRUE,
     chunk_size |-> 800, chunk_overlap |-> 100]

\* _get_html_splitter: HTMLHeaderTextSplitter takes the headers to split on
\* and no chunk size.
get_html_splitter ==
    [kind |-> "HTMLHeaderTextSplitter", bounded |-> FALSE,
     chunk_size |-> 0, chunk_overlap |-> 0]

\* _get_chunk_settings
get_chunk_settings(file_path_ext) ==
    LET file_extension == lower(file_path_ext) IN
    CASE file_extension = ".csv" -> [chunk_size |-> 500, chunk_overlap |-> 50]
      [] file_extension = ".json" -> [chunk_size |-> 800, chunk_overlap |-> 100]
      [] file_extension = ".xml" -> [chunk_size |-> 800, chunk_overlap |-> 100]
      [] file_extension = ".html" -> [chunk_size |-> 1000, chunk_overlap |-> 200]
      [] file_extension = ".css" -> [chunk_size |-> 800, chunk_overlap |-> 100]
      [] file_extension = ".scss" -> [chunk_size |-> 800, chunk_overlap |-> 100]
      [] OTHER -> [chunk_size |-> 1000, chunk_overlap |-> 250]

\* _get_text_splitter
get_text_splitter(file_path_ext) ==
    LET file_extension == lower(file_path_ext) IN
    IF file_extension \in {".css", ".scss"} THEN get_css_splitter
    ELSE IF file_extension = ".html" THEN get_html_splitter
    ELSE LET chunk_settings == get_chunk_settings(file_path_ext) IN
         [kind |-> "RecursiveCharacterTextSplitter", bounded |-> TRUE,
          chunk_size |-> chunk_settings.chunk_size,
          chunk_overlap |-> chunk_settings.chunk_overlap]

\* RecursiveCharacterTextSplitter on one text of length len: the text is cut
\* into pieces of at most chunk_size characters, each piece starting
\* chunk_overlap characters before the end of the previous one; whitespace
\* is stripped and an empty piece is dropped.
RECURSIVE split_text(_, _, _)
split_text(len, chunk_size, chunk_overlap) ==
    IF len = 0 THEN <<>>
    ELSE IF len <= chunk_size THEN <<len>>
    ELSE <<chunk_size>>
         \o split_text(len - (chunk_size - chunk_overlap), chunk_size,
                       chunk_overlap)

\* HTMLHeaderTextSplitter on one text: the text between two headings is one
\* chunk, whatever its length.
split_html(len) == IF len = 0 THEN <<>> ELSE <<len>>

\* text_splitter.split_documents(docs): the chunks of every unit, in order.
RECURSIVE split_documents(_, _)
split_documents(text_splitter, docs) ==
    IF docs = <<>> THEN <<>>
    ELSE (IF text_splitter.bounded
          THEN split_text(Head(docs), text_splitter.chunk_size,
                          text_splitter.chunk_overlap)
          ELSE split_html(Head(docs)))
         \o split_documents(text_splitter, Tail(docs))


\* ------------------------------------------------------------------ state
VARIABLES
    uploaded_file,      \* per session: the file in the uploader, or NoFile
    pc,                 \* per session: where its script run stands
    tmp_file_path,      \* per session: the temporary file of the current run
    processed_files,    \* per session: st.session_state.processed_files
    docs,               \* per session: the units loader.load() returned
    splits,             \* per session: the chunks split_documents returned
    exc,                \* per session: the exception the call raised
    disk,               \* the temporary files that exist
    next_tmp,           \* the name the next temporary file gets
    store_up,           \* whether the Qdrant server answers
    collection_exists,  \* whether collection "vector_db" exists
    points,             \* the points of the collection: <<call, index>>
    contact,            \* per session: how the call found the store (history)
    touched             \* per session: the call changed the store (history)

vars ==
    <<uploaded_file, pc, tmp_file_path, processed_files, docs, splits, exc,
      disk, next_tmp, store_up, collection_exists, points, contact,
      touched>>

ui_vars == <<uploaded_file, processed_files>>
call_vars == <<docs, splits>>
fs_vars == <<disk, next_tmp, tmp_file_path>>
store_vars == <<store_up, collection_exists, points>>
hist_vars == <<contact, touched>>

Init ==
    /\ uploaded_file = [s \in Sessions |-> NoFile]
    /\ pc = [s \in Sessions |-> "idle"]
    /\ tmp_file_path = [s \in Sessions |-> 0]
    /\ processed_files = [s \in Sessions |-> <<>>]
    /\ docs = [s \in Sessions |-> <<>>]
    /\ splits = [s \in Sessions |-> <<>>]
    /\ exc = [s \in Sessions |-> NoException]
    /\ disk = {}
    /\ next_tmp = 1
    /\ store_up = TRUE
    /\ collection_exists = FALSE
    /\ points = {}
    /\ contact = [s \in Sessions |-> "none"]
    /\ touched = [s \in Sessions |-> FALSE]

\* ------------------------------------------------------- the upload page
\* tempfile.NamedTemporaryFile(delete=False, ...): a fresh file on disk.
NamedTemporaryFile(s) ==
    /\ next_tmp <= MaxTmpFiles
    /\ disk' = disk \cup {next_tmp}
    /\ tmp_file_path' = [tmp_file_path EXCEPT ![s] = next_tmp]
    /\ next_tmp' = next_tmp + 1

\* The user puts a file into the uploader: the script reruns with
\* uploaded_file set and the button not pressed.  (The model lets a session
\* choose its file once.)
upload(s, f) ==
    /\ pc[s] = "idle"
    /\ uploaded_file[s] = NoFile
    /\ uploaded_file' = [uploaded_file EXCEPT ![s] = f]
    /\ NamedTemporaryFile(s)
    /\ UNCHANGED <<pc, processed_files, call_vars, exc, store_vars, hist_vars>>

\* The user presses "Process Document": the script reruns, writes the
\* temporary file and enters create_embeddings(tmp_file_path).
process(s) ==
    /\ pc[s] = "idle"
    /\ uploaded_file[s] # NoFile
    /\ NamedTemporaryFile(s)
    /\ pc' = [pc EXCEPT ![s] = "create_embeddings"]
    /\ docs' = [docs EXCEPT ![s] = <<>>]
    /\ splits' = [splits EXCEPT ![s] = <<>>]
    /\ exc' = [exc EXCEPT ![s] = NoException]
    /\ contact' = [contact EXCEPT ![s] = "none"]
    /\ touched' = [touched EXCEPT ![s] = FALSE]
    /\ UNCHANGED <<ui_vars, store_vars>>

\* A variant of raise that retries the call from the classification instead
\* of leaving it.
raise_retry(s, e) ==
    /\ exc' = [exc EXCEPT ![s] = e]
    /\ pc' = [pc EXCEPT ![s] = "get_loader"]

\* An exception leaves create_embeddings; the page catches it (except
\* Exception), shows it and goes on to the cleanup.
raise(s, e) ==
    /\ exc' = [exc EXCEPT ![s] = e]
    /\ pc' = [pc EXCEPT ![s] = "unlink"]

goto(s, label) ==
    /\ pc' = [pc EXCEPT ![s] = label]
    /\ UNCHANGED exc

\* os.unlink(tmp_file_path), the last statement of the button's block.
unlink(s) ==
    /\ pc[s] = "unlink"
    /\ disk' = disk \ {tmp_file_path[s]}
    /\ pc' = [pc EXCEPT ![s] = "idle"]
    /\ UNCHANGED <<ui_vars, call_vars, exc, next_tmp, tmp_file_path,
                   store_vars, hist_vars>>

\* ---------------------------------------------------- create_embeddings
\* if not os.path.exists(file_path): raise FileNotFoundError.  The page has
\* written the file in the same run, so the call from the page finds it.
ce_exists(s) ==
    /\ pc[s] = "create_embeddings"
    /\ IF tmp_file_path[s] \in disk
       THEN goto(s, "get_loader")
       ELSE raise(s, Raise("FileNotFoundError", "does not exist"))
    /\ UNCHANGED <<ui_vars, call_vars, fs_vars, store_vars, hist_vars>>

\* loader = self._get_loader(file_path)
ce_get_loader(s) ==
    /\ pc[s] = "get_loader"
    /\ LET r == get_loader(uploaded_file[s].ext) IN
       IF r.raised = NoException THEN goto(s, "load") ELSE raise(s, r.raised)
    /\ UNCHANGED <<ui_vars, call_vars, fs_vars, store_vars, hist_vars>>

\* docs = loader.load(); if not docs: raise ValueError
ce_load(s) ==
    /\ pc[s] = "load"
    /\ LET content == uploaded_file[s].content IN
       IF ~content.decodes
       THEN /\ raise(s, Raise("LoaderError", "decode error"))
            /\ UNCHANGED docs
       ELSE /\ docs' = [docs EXCEPT ![s] = content.units]
            /\ IF content.units = <<>>
               THEN raise(s, Raise("ValueError", "No documents were loaded"))
               ELSE goto(s, "split")
    /\ UNCHANGED <<ui_vars, splits, fs_vars, store_vars, hist_vars>>

\* text_splitter = self._get_text_splitter(file_path)
\* splits = text_splitter.split_documents(docs); if not splits: raise
ce_split(s) ==
    /\ pc[s] = "split"
    /\ LET text_splitter == get_text_splitter(uploaded_file[s].ext)
           result == split_documents(text_splitter, docs[s]) IN
       /\ splits' = [splits EXCEPT ![s] = result]
       /\ IF result = <<>>
          THEN raise(s, Raise("ValueError", "No text chunks were created"))
          ELSE goto(s, "embed")
    /\ UNCHANGED <<ui_vars, docs, fs_vars, store_vars, hist_vars>>

\* A variant of wrap that lets the exception through as it is.
wrap_reraise(e) == Raise(e, e)

\* except Exception as e: raise ConnectionError(f"Failed to connect to
\* Qdrant: {e}"): whatever Qdrant.from_documents raised.
wrap(e) == Raise("ConnectionError", e)

\* Qdrant.from_documents, first part: self.embeddings computes the vectors
\* of the chunks; the model may fail.
ce_embed(s) ==
    /\ pc[s] = "embed"
    /\ \E ok \in BOOLEAN :
         IF ok THEN goto(s, "get_collection")
         ELSE raise(s, wrap("EmbeddingError"))
    /\ UNCHANGED <<ui_vars, call_vars, fs_vars, store_vars, hist_vars>>

\* What a call has seen of the store so far: "down" as long as every
\* request it sent found the server unreachable.
seen(s, up) ==
    contact' = [contact EXCEPT ![s] =
                  IF up THEN "up" ELSE IF @ = "none" THEN "down" ELSE @]

\* Qdrant.from_documents, second part: the client asks the server for the
\* collection named collection_name.
ce_get_collection(s) ==
    /\ pc[s] = "get_collection"
    /\ seen(s, store_up)
    /\ IF ~store_up THEN raise(s, wrap("Unreachable"))
       ELSE IF collection_exists THEN goto(s, "upsert")
       ELSE goto(s, "recreate_collection")
    /\ UNCHANGED <<ui_vars, call_vars, fs_vars, store_vars, touched>>

\* Qdrant.from_documents, third part: the collection was not found, so the
\* client recreates it: the collection of that name is dropped with its
\* points and created anew.  Nothing locks the collection between the
\* lookup and this request.
ce_recreate_collection(s) ==
    /\ pc[s] = "recreate_collection"
    /\ seen(s, store_up)
    /\ IF ~store_up
       THEN /\ raise(s, wrap("Unreachable"))
            /\ UNCHANGED <<collection_exists, points, touched>>
       ELSE /\ collection_exists' = TRUE
            /\ points' = {}
            /\ touched' = [touched EXCEPT ![s] = TRUE]
            /\ goto(s, "upsert")
    /\ UNCHANGED <<ui_vars, call_vars, fs_vars, store_up>>

\* The points one call writes: one per chunk, each under a fresh identifier.
new_points(s) == {<<tmp_file_path[s], i>> : i \in 1..Len(splits[s])}

\* Qdrant.from_documents, last part: the chunks and their vectors are
\* written to the collection as one batch.
ce_upsert(s) ==
    /\ pc[s] = "upsert"
    /\ seen(s, store_up)
    /\ IF ~store_up
       THEN /\ raise(s, wrap("Unreachable"))
            /\ UNCHANGED <<points, touched>>
       ELSE /\ points' = points \cup new_points(s)
            /\ touched' = [touched EXCEPT ![s] = TRUE]
            /\ goto(s, "return")
    /\ UNCHANGED <<ui_vars, call_vars, fs_vars, store_up, collection_exists>>

\* return "Vector DB Successfully Created ..."; the page shows the result
\* and appends the file's name to processed_files if it is not in it.
ce_return(s) ==
    /\ pc[s] = "return"
    /\ LET name == uploaded_file[s].ext IN
       processed_files' =
         [processed_files EXCEPT ![s] =
            IF \E i \in 1..Len(@) : @[i] = name THEN @ ELSE Append(@, name)]
    /\ pc' = [pc EXCEPT ![s] = "unlink"]
    /\ UNCHANGED <<uploaded_file, call_vars, exc, fs_vars, store_vars,
                   hist_vars>>

\* --------------------------------------------------------- environment
\* The Qdrant server goes down or comes back.
store_toggle ==
    /\ store_up' = ~store_up
    /\ UNCHANGED <<ui_vars, pc, call_vars, exc, fs_vars, collection_exists,
                   points, hist_vars>>

\* One step of the page of a session of S, its files taken from F, or of
\* the environment.
Step(S, F) ==
    \/ \E s \in S, f \in F : upload(s, f)
    \/ \E s \in S : process(s)
    \/ \E s \in S : ce_exists(s)
    \/ \E s \in S : ce_get_loader(s)
    \/ \E s \in S : ce_load(s)
    \/ \E s \in S : ce_split(s)
    \/ \E s \in S : ce_embed(s)
    \/ \E s \in S : ce_get_collection(s)
    \/ \E s \in S : ce_recreate_collection(s)
    \/ \E s \in S : ce_upsert(s)
    \/ \E s \in S : ce_return(s)
    \/ \E s \in S : unlink(s)
    \/ store_toggle

\* Two sessions at once, over the files of SharedFiles.
Next == Step(Sessions, SharedFiles)

\* One session, over every file of Files.
NextOne == Step({1}, Files)

Spec == Init /\ [][Next]_vars

SpecOne == Init /\ [][NextOne]_vars


\* ------------------------------------------------- the request's stages
\* The stage of the ingestion request a session's call stands for.
Stage(s) ==
    CASE pc[s] = "idle" -> "NoRequest"
      [] pc[s] \in {"create_embeddings", "get_loader"} -> "Received"
      [] pc[s] = "load" -> "Classified"
      [] pc[s] = "split" -> "Loaded"
      [] pc[s] = "embed" -> "Chunked"
      [] pc[s] \in {"get_collection", "recreate_collection", "upsert"} ->
           "Embedded"
      [] pc[s] = "return" -> "Stored"
      [] pc[s] = "unlink" ->
           IF exc[s] = NoException THEN "Succeeded" ELSE "Failed"

StageOrder ==
    <<"Received", "Classified", "Loaded", "Chunked", "Embedded", "Stored",
      "Succeeded">>

\* The error kind a caller can tell from the exception's type and text.
Kind(e) ==
    CASE e = NoException -> "None"
      [] e.type = "FileNotFoundError" -> "PreconditionFailure"
      [] e = Raise("ValueError", "Unsupported file type") -> "UnsupportedFormat"
      [] e = Raise("ValueError", "No documents were loaded") -> "EmptyDocument"
      [] e = Raise("ValueError", "No text chunks were created") ->
           "EmptyChunkSet"
      [] e.type = "LoaderError" -> "LoadFailure"
      [] e.type = "ConnectionError" -> "StoreUnavailable"
      [] OTHER -> "Unclassified"

\* The call of session s has ended (returned or raised) and its page has
\* not yet started another run.
Ended(s) == pc[s] = "unlink"

\* One step of a request in the order of the stages.
C1_StageStep(a, b) ==
    \/ a = b
    \/ a = "NoRequest" /\ b = "Received"
    \/ \E i \in 1..(Len(StageOrder) - 1) :
         a = StageOrder[i] /\ b = StageOrder[i + 1]
    \/ \E i \in 1..(Len(StageOrder) - 1) : a = StageOrder[i] /\ b = "Failed"
    \/ a \in {"Succeeded", "Failed"} /\ b = "NoRequest"

SupportedExtensions ==
    {".pdf", ".md", ".ts", ".tsx", ".csv", ".json", ".xml", ".html", ".css",
     ".scss"}

\* The call of session s has run the classification (_get_loader).
RanClassify(s) == pc[s] \notin {"idle", "create_embeddings", "get_loader"}

\* The call of session s has decoded its file (loader.load() returned).
RanLoad(s) ==
    \/ pc[s] \in {"split", "embed", "get_collection", "recreate_collection",
                  "upsert", "return"}
    \/ /\ pc[s] = "unlink"
       /\ Kind(exc[s]) \in
            {"None", "EmptyDocument", "EmptyChunkSet", "StoreUnavailable"}

\* The call of session s has run the splitter.
Split(s) ==
    \/ pc[s] \in {"embed", "get_collection", "recreate_collection", "upsert",
                  "return"}
    \/ Ended(s) /\ Kind(exc[s]) \in {"None", "EmptyChunkSet", "StoreUnavailable"}

\* C2: classification by extension is total over the supported set: for a
\* supported extension, in any letter case, selecting the loader raises
\* nothing; for every other extension the request fails with
\* UnsupportedFormat.
C2_ClassifyTotal ==
    \A s \in Sessions :
      RanClassify(s) =>
        IF lower(uploaded_file[s].ext) \in SupportedExtensions
        THEN /\ get_loader(uploaded_file[s].ext).raised = NoException
             /\ Kind(exc[s]) \notin {"UnsupportedFormat", "Unclassified"}
        ELSE /\ Ended(s)
             /\ Kind(exc[s]) = "UnsupportedFormat"

\* C3: a failed request reports the kind of the failing stage: a failure of
\* the embedding capability is reported as EmbeddingFailure and an
\* unreachable store as StoreUnavailable, never one for the other.
C3_KindNamesStage ==
    \A s \in Sessions :
      (Ended(s) /\ exc[s] # NoException) =>
        /\ exc[s].msg = "EmbeddingError" => Kind(exc[s]) = "EmbeddingFailure"
        /\ exc[s].msg = "Unreachable" => Kind(exc[s]) = "StoreUnavailable"
        /\ Kind(exc[s]) = "StoreUnavailable" => exc[s].msg = "Unreachable"

\* C4: a call that found the store unreachable whenever it contacted it
\* ends in Failed with kind StoreUnavailable and has not changed the store:
\* it created no collection and wrote no point.
C4_UnreachableStore ==
    \A s \in Sessions :
      contact[s] = "down" =>
        /\ pc[s] \in {"unlink", "idle"}
        /\ Kind(exc[s]) = "StoreUnavailable"
        /\ ~touched[s]
        /\ \A pt \in points : pt[1] # tmp_file_path[s]

C4_Witness ==
    \E s \in Sessions :
      /\ contact[s] = "down"
      /\ Ended(s)
      /\ ~store_up
      /\ ~collection_exists

\* C5: the collection is append-only across ingestion calls: once it exists
\* it keeps existing, no step removes a point already stored, and a call
\* that succeeds leaves the collection existing with exactly its own chunks
\* added (so the same file ingested twice doubles the count).
C5_AppendOnly ==
    [][/\ collection_exists => collection_exists'
       /\ points \subseteq points'
       /\ \A s \in Sessions :
            (pc[s] = "upsert" /\ pc'[s] = "return") =>
              /\ collection_exists'
              /\ Cardinality(points') = Cardinality(points) + Len(splits[s])]_vars

\* C6: when the calls of two sessions for different files have both
\* returned, the collection holds the points of both, whatever the order of
\* their lookups, creations and writes was.
C6_BothStored ==
    \A s, u \in Sessions :
      (/\ s # u
       /\ uploaded_file[s] # uploaded_file[u]
       /\ Ended(s) /\ exc[s] = NoException
       /\ Ended(u) /\ exc[u] = NoException) =>
        new_points(s) \cup new_points(u) \subseteq points

\* The units are none, or all of whitespace only.
Blank(units) == \A i \in 1..Len(units) : units[i] = 0

\* C7: a file that decodes to no unit, or to units of whitespace only, fails
\* with EmptyDocument at the load stage and never reaches chunking,
\* embedding or the store; a request whose chunking yields no chunk fails
\* with EmptyChunkSet and never reaches the store.
C7_EmptyRejectedAtLoad ==
    \A s \in Sessions :
      LET content == uploaded_file[s].content IN
      /\ (content.decodes /\ Blank(content.units) /\ RanLoad(s)) =>
           /\ Ended(s)
           /\ Kind(exc[s]) = "EmptyDocument"
           /\ ~touched[s]
      /\ (Split(s) /\ splits[s] = <<>>) =>
           /\ Ended(s)
           /\ Kind(exc[s]) = "EmptyChunkSet"
           /\ ~touched[s]

\* The content category of an extension, and the chunk sizes and overlaps
\* the specification's table gives for it.
Category(ext) ==
    CASE ext \in {".pdf", ".md"} -> "prose"
      [] ext = ".csv" -> "tabular"
      [] ext \in {".json", ".xml"} -> "structured"
      [] ext = ".html" -> "markup"
      [] ext \in {".css", ".scss"} -> "stylesheet"
      [] ext \in {".ts", ".tsx"} -> "source-code"

Table(category) ==
    CASE category = "prose" -> [size |-> 1000..1000, overlap |-> 200..250]
      [] category = "tabular" -> [size |-> 500..500, overlap |-> 50..50]
      [] category = "structured" -> [size |-> 500..800, overlap |-> 100..100]
      [] category = "markup" -> [size |-> 800..1000, overlap |-> 100..200]
      [] category = "stylesheet" -> [size |-> 600..800, overlap |-> 100..100]
      [] category = "source-code" -> [size |-> 800..800, overlap |-> 150..150]

\* C8: for every supported extension the chunk size and overlap of the
\* splitter applied to the file lie within the table's values for the
\* file's category, and the overlap does not exceed the size.
C8_SettingsInTable ==
    \A s \in Sessions :
      Split(s) =>
        LET text_splitter == get_text_splitter(uploaded_file[s].ext)
            row == Table(Category(lower(uploaded_file[s].ext))) IN
        /\ text_splitter.bounded
        /\ text_splitter.chunk_size \in row.size
        /\ text_splitter.chunk_overlap \in row.overlap
        /\ text_splitter.chunk_overlap <= text_splitter.chunk_size

\* C9: every chunk handed to the embedding and store stages is no longer
\* than the chunk size configured for the file's type.
C9_ChunksBounded ==
    \A s \in Sessions :
      Split(s) =>
        \A i \in 1..Len(splits[s]) :
          splits[s][i] <= get_chunk_settings(uploaded_file[s].ext).chunk_size

\* C10: every temporary file the page creates is removed by the page: a
\* session whose run has ended has left no temporary file on disk, and the
\* file of a call is on disk for as long as the call runs.
C10_TmpFilesRemoved ==
    /\ (\A s \in Sessions : pc[s] = "idle") => disk = {}
    /\ \A s \in Sessions :
         pc[s] \notin {"idle", "unlink"} => tmp_file_path[s] \in disk

=============================================================================
